---- MODULE Spec2Model ----
(***************************************************************************)
(* London Address Matcher (src/app.py): a Streamlit page that sends two    *)
(* addresses to a hosted model, parses the JSON answer into a MatchResult, *)
(* clamps its confidence and renders it.                                   *)
(*                                                                         *)
(* Representation.                                                         *)
(*  - A Python str is a sequence of pieces.  A piece is either one         *)
(*    whitespace character or a chunk of text that neither begins nor ends *)
(*    with whitespace; the str is the concatenation of its pieces.         *)
(*  - A response text is a sequence of JSON lexemes (tokens); the          *)
(*    whitespace json.loads skips between lexemes is not represented.      *)
(*  - A Python object is a record [t, n, s, items]: t is its type, n its   *)
(*    number, s its text, items the entries of a list or dict.             *)
(*  - A Python float is a record [c, n]: c is "fin" (the finite value n),  *)
(*    "nan", "inf" or "ninf".  Only integer-valued finite floats occur.    *)
(***************************************************************************)
EXTENDS Integers, Sequences, FiniteSets, TLC

(***************************************************************************)
(* Bounds of the model.                                                    *)
(***************************************************************************)
\* longest response text enumerated lexeme by lexeme
MaxTokens == 3

(***************************************************************************)
(* Python str                                                              *)
(***************************************************************************)
Whitespace == {" ", "\t", "\n"}

RECURSIVE lstrip(_)
lstrip(s) ==
    IF s = <<>> THEN <<>>
    ELSE IF Head(s) \in Whitespace THEN lstrip(Tail(s)) ELSE s

RECURSIVE rstrip(_)
rstrip(s) ==
    IF s = <<>> THEN <<>>
    ELSE IF s[Len(s)] \in Whitespace THEN rstrip(SubSeq(s, 1, Len(s) - 1)) ELSE s

\* str.strip(): leading and trailing whitespace removed
strip(s) == rstrip(lstrip(s))

Digit == <<"0", "1", "2", "3", "4", "5", "6", "7", "8", "9">>

\* str(int): the decimal digits, as one chunk
RECURSIVE IntStr(_)
IntStr(n) ==
    IF n < 0 THEN "-" \o IntStr(-n)
    ELSE IF n < 10 THEN Digit[n + 1]
    ELSE IntStr(n \div 10) \o Digit[(n % 10) + 1]

(***************************************************************************)
(* Python float                                                            *)
(***************************************************************************)
Fin(n) == [c |-> "fin", n |-> n]
NaN == [c |-> "nan", n |-> 0]
PosInf == [c |-> "inf", n |-> 0]
NegInf == [c |-> "ninf", n |-> 0]

\* a < b on floats: every comparison with nan is False
FloatLt(a, b) ==
    IF a.c = "nan" \/ b.c = "nan" THEN FALSE
    ELSE IF a.c = "ninf" THEN b.c # "ninf"
    ELSE IF a.c = "inf" THEN FALSE
    ELSE IF b.c = "ninf" THEN FALSE
    ELSE IF b.c = "inf" THEN TRUE
    ELSE a.n < b.n

\* builtin min(a, b): the first argument unless the second is smaller
PyMin(a, b) == IF FloatLt(b, a) THEN b ELSE a

\* builtin max(a, b): the first argument unless the second is larger
PyMax(a, b) == IF FloatLt(a, b) THEN b ELSE a

\* str(float) and format(float, ".1f")
FloatStr(f) ==
    CASE f.c = "nan" -> "nan"
      [] f.c = "inf" -> "inf"
      [] f.c = "ninf" -> "-inf"
      [] OTHER -> IntStr(f.n) \o ".0"

(***************************************************************************)
(* Python objects produced by json.loads                                   *)
(***************************************************************************)
PyNone == [t |-> "None", n |-> 0, s |-> <<>>, items |-> <<>>]
PyBool(b) == [t |-> "bool", n |-> IF b THEN 1 ELSE 0, s |-> <<>>, items |-> <<>>]
PyInt(n) == [t |-> "int", n |-> n, s |-> <<>>, items |-> <<>>]
PyFloat(f) == [t |-> "float", n |-> f.n, s |-> <<f.c>>, items |-> <<>>]
PyStr(s) == [t |-> "str", n |-> 0, s |-> s, items |-> <<>>]
PyList(items) == [t |-> "list", n |-> 0, s |-> <<>>, items |-> items]
PyDict(items) == [t |-> "dict", n |-> 0, s |-> <<>>, items |-> items]
Entry(key, val) == [key |-> key, val |-> val]
FloatOf(v) == [c |-> v.s[1], n |-> v.n]

(***************************************************************************)
(* JSON lexemes and json.loads                                             *)
(***************************************************************************)
Punct(k) == [k |-> k, s |-> <<>>, n |-> 0]
StrTok(s) == [k |-> "str", s |-> s, n |-> 0]
NumTok(n) == [k |-> "num", s |-> <<>>, n |-> n]
\* a lexeme the JSON scanner rejects, such as a bare word of prose
BadTok == Punct("bad")

\* what the decoder returns: a value and the next position, or a decode error
Decoded(val, next) == [ok |-> TRUE, val |-> val, next |-> next]
DecodeError == [ok |-> FALSE, val |-> PyNone, next |-> 0]

TokAt(toks, i) == IF i <= Len(toks) THEN toks[i].k ELSE "end"

\* dict built from (key, value) pairs in order: a repeated key keeps its
\* first position and takes the last value
RECURSIVE DictOfPairs(_, _)
DictOfPairs(pairs, acc) ==
    IF pairs = <<>> THEN acc
    ELSE LET p == Head(pairs)
             seen == \E j \in 1..Len(acc) : acc[j].key = p.key
             upd == [j \in 1..Len(acc) |->
                        IF acc[j].key = p.key THEN p ELSE acc[j]]
         IN  DictOfPairs(Tail(pairs), IF seen THEN upd ELSE Append(acc, p))

RECURSIVE scan_once(_, _), parse_array(_, _, _), parse_object(_, _, _)
\* json.scanner: one JSON value starting at lexeme i
scan_once(toks, i) ==
    LET k == TokAt(toks, i) IN
    CASE k = "str" -> Decoded(PyStr(toks[i].s), i + 1)
      [] k = "num" -> Decoded(PyInt(toks[i].n), i + 1)
      [] k = "null" -> Decoded(PyNone, i + 1)
      [] k = "true" -> Decoded(PyBool(TRUE), i + 1)
      [] k = "false" -> Decoded(PyBool(FALSE), i + 1)
      \* the default parse_constant accepts the three non-standard constants
      [] k = "NaN" -> Decoded(PyFloat(NaN), i + 1)
      [] k = "Infinity" -> Decoded(PyFloat(PosInf), i + 1)
      [] k = "-Infinity" -> Decoded(PyFloat(NegInf), i + 1)
      [] k = "[" ->
            IF TokAt(toks, i + 1) = "]" THEN Decoded(PyList(<<>>), i + 2)
            ELSE parse_array(toks, i + 1, <<>>)
      [] k = "{" ->
            IF TokAt(toks, i + 1) = "}" THEN Decoded(PyDict(<<>>), i + 2)
            ELSE parse_object(toks, i + 1, <<>>)
      [] OTHER -> DecodeError

\* json.decoder.JSONArray after "[": value ("," value)* "]"
parse_array(toks, i, acc) ==
    LET v == scan_once(toks, i) IN
    IF ~v.ok THEN DecodeError
    ELSE LET items == Append(acc, Entry(<<>>, v.val))
             k == TokAt(toks, v.next)
         IN  CASE k = "," -> parse_array(toks, v.next + 1, items)
               [] k = "]" -> Decoded(PyList(items), v.next + 1)
               [] OTHER -> DecodeError

\* json.decoder.JSONObject after "{": string ":" value ("," ...)* "}"
parse_object(toks, i, acc) ==
    IF TokAt(toks, i) # "str" \/ TokAt(toks, i + 1) # ":" THEN DecodeError
    ELSE LET v == scan_once(toks, i + 2) IN
         IF ~v.ok THEN DecodeError
         ELSE LET pairs == Append(acc, Entry(toks[i].s, v.val))
                  k == TokAt(toks, v.next)
              IN  CASE k = "," -> parse_object(toks, v.next + 1, pairs)
                    [] k = "}" -> Decoded(PyDict(DictOfPairs(pairs, <<>>)), v.next + 1)
                    [] OTHER -> DecodeError

\* json.loads(raw_text): one value and nothing after it, else JSONDecodeError
json_loads(toks) ==
    LET v == scan_once(toks, 1) IN
    IF v.ok /\ v.next = Len(toks) + 1 THEN v ELSE DecodeError

(***************************************************************************)
(* Builtins applied to the payload                                         *)
(***************************************************************************)
\* dict.get(key, default)
dict_get(d, key, default) ==
    IF \E j \in 1..Len(d.items) : d.items[j].key = key
    THEN d.items[CHOOSE j \in 1..Len(d.items) : d.items[j].key = key].val
    ELSE default

RECURSIVE Join(_, _)
Join(parts, sep) ==
    IF parts = <<>> THEN <<>>
    ELSE IF Len(parts) = 1 THEN parts[1]
    ELSE parts[1] \o sep \o Join(Tail(parts), sep)

RECURSIVE py_repr(_), py_str(_)
\* repr(x), as pieces (the strings of the model hold no quote to escape)
py_repr(v) ==
    CASE v.t = "str" -> <<"'">> \o v.s \o <<"'">>
      [] v.t = "list" ->
            <<"[">> \o Join([j \in 1..Len(v.items) |-> py_repr(v.items[j].val)],
                            <<",", " ">>) \o <<"]">>
      [] v.t = "dict" ->
            <<"{">> \o Join([j \in 1..Len(v.items) |->
                                <<"'">> \o v.items[j].key \o <<"'", ":", " ">>
                                \o py_repr(v.items[j].val)],
                            <<",", " ">>) \o <<"}">>
      [] OTHER -> py_str(v)

\* str(x)
py_str(v) ==
    CASE v.t = "str" -> v.s
      [] v.t = "None" -> <<"None">>
      [] v.t = "bool" -> <<IF v.n = 1 THEN "True" ELSE "False">>
      [] v.t = "int" -> <<IntStr(v.n)>>
      [] v.t = "float" -> <<FloatStr(FloatOf(v))>>
      [] OTHER -> py_repr(v)

\* the integers whose decimal text the model can hold
Numbers == {-5, 0, 50, 100, 150}

\* what float(x) gives: a float, or the exception it raises
Converted(f) == [exc |-> "", f |-> f]
Raised(exc) == [exc |-> exc, f |-> Fin(0)]

\* float(str): the stripped text is a number, "nan" or "inf", else ValueError
float_of_str(s) ==
    LET b == strip(s) IN
    IF Len(b) # 1 THEN Raised("ValueError")
    ELSE IF b[1] \in {"nan", "NaN"} THEN Converted(NaN)
    ELSE IF b[1] \in {"inf", "Infinity"} THEN Converted(PosInf)
    ELSE IF b[1] \in {"-inf", "-Infinity"} THEN Converted(NegInf)
    ELSE IF \E n \in Numbers : IntStr(n) = b[1]
         THEN Converted(Fin(CHOOSE n \in Numbers : IntStr(n) = b[1]))
    ELSE Raised("ValueError")

\* float(x)
py_float(v) ==
    CASE v.t \in {"int", "bool"} -> Converted(Fin(v.n))
      [] v.t = "float" -> Converted(FloatOf(v))
      [] v.t = "str" -> float_of_str(v.s)
      [] OTHER -> Raised("TypeError")

(***************************************************************************)
(* Domain types and utilities                                              *)
(***************************************************************************)
MatchResult(confidence, decision, reasoning) ==
    [confidence |-> confidence, decision |-> decision, reasoning |-> reasoning]

\* what a call gives: a MatchResult, None, or the exception it raises
Returns(val) == [exc |-> "", none |-> FALSE, val |-> val]
ReturnsNone == [exc |-> "", none |-> TRUE, val |-> MatchResult(Fin(0), <<>>, <<>>)]
Raises(exc) == [exc |-> exc, none |-> FALSE, val |-> MatchResult(Fin(0), <<>>, <<>>)]

Confidence == <<"confidence">>
Decision == <<"decision">>
Reasoning == <<"reasoning">>

\* float(payload.get("confidence")): the field is left without a default
confidence_no_default(payload) == py_float(dict_get(payload, Confidence, PyNone))

\* line 46: float(payload.get("confidence", 0))
confidence_of(payload) == py_float(dict_get(payload, Confidence, PyInt(0)))

\* parse_json_response: json.loads, then the three fields of the payload
parse_json_response(raw_text) ==
    LET loaded == json_loads(raw_text)
        payload == loaded.val
    IN  IF ~loaded.ok THEN ReturnsNone
        \* payload.get on anything but a dict: AttributeError, not caught
        ELSE IF payload.t # "dict" THEN Raises("AttributeError")
        ELSE LET confidence == confidence_of(payload)
             IN  IF confidence.exc \in {"TypeError", "ValueError"} THEN ReturnsNone
                 ELSE Returns(MatchResult(
                         confidence.f,
                         strip(py_str(dict_get(payload, Decision, PyStr(<<>>)))),
                         strip(py_str(dict_get(payload, Reasoning, PyStr(<<>>))))))

\* a default record with a decision of its own
Fallback_unknown ==
    MatchResult(Fin(0), <<"unknown">>,
                <<"Could not parse model response; defaulting to no match.">>)

\* the record substituted when the parser returns None
Fallback ==
    MatchResult(Fin(0), <<"no_match">>,
                <<"Could not parse model response; defaulting to no match.">>)

MinConfidence == 0
MaxConfidence == 100

\* max(min(confidence, 100.0), 0.0): the operands the other way round
clamp_operands_swapped(confidence) ==
    PyMax(PyMin(confidence, Fin(MaxConfidence)), Fin(MinConfidence))

\* max(0.0, min(100.0, confidence))
clamp(confidence) ==
    PyMax(Fin(MinConfidence), PyMin(Fin(MaxConfidence), confidence))

\* a response of generate_content: its text attribute is a str, is None, or
\* raises (a response without a valid part)
TextResponse(toks) == [kind |-> "text", toks |-> toks]
NoneResponse == [kind |-> "none", toks |-> <<>>]
BlockedResponse == [kind |-> "blocked", toks |-> <<>>]
NoResponse == [kind |-> "unset", toks |-> <<>>]

\* response.text or ""
raw_text_of(response) == IF response.kind = "text" THEN response.toks ELSE <<>>

\* the decision derived again from the clamped confidence
finish_recompute(parsed) ==
    LET chosen == IF parsed.none THEN Fallback ELSE parsed.val
        confidence == clamp(chosen.confidence)
    IN  [chosen EXCEPT !.confidence = confidence,
                       !.decision = IF FloatLt(confidence, Fin(50))
                                    THEN <<"no_match">> ELSE <<"match">>]

\* lines 88-98: the fallback when the parser returned None, then the clamp
finish(parsed) ==
    LET chosen == IF parsed.none THEN Fallback ELSE parsed.val
    IN  [chosen EXCEPT !.confidence = clamp(chosen.confidence)]

\* score_addresses with every failure of the response answered by the fallback
score_addresses_swallow(response) ==
    IF response.kind = "blocked" THEN Returns(finish(ReturnsNone))
    ELSE LET parsed == parse_json_response(raw_text_of(response))
         IN  IF parsed.exc # "" THEN parsed ELSE Returns(finish(parsed))

\* score_addresses once generate_content has returned: the text is read,
\* parsed, replaced by the fallback when None, and clamped
score_addresses(response) ==
    IF response.kind = "blocked" THEN Raises("ValueError")
    ELSE LET parsed == parse_json_response(raw_text_of(response))
         IN  IF parsed.exc # "" THEN parsed ELSE Returns(finish(parsed))

\* not addr: the test without strip()
blank_no_strip(addr) == addr = <<>>

\* line 118: not addr.strip()
blank(addr) == strip(addr) = <<>>

(***************************************************************************)
(* Inputs: what the user types, what the secrets store holds, what the     *)
(* model answers                                                           *)
(***************************************************************************)
Addresses ==
    { <<>>, <<" ">>, <<"\n", "\t">>,
      <<"10", " ", "Downing", " ", "St">>,
      <<" ", "10", " ", "Downing", " ", "Street", "\n">> }

\* st.secrets: the GEMINI_API_KEY entry is missing, empty or set
NoEntry == [has |-> FALSE, key |-> <<>>]
EntryOf(key) == [has |-> TRUE, key |-> key]
SecretStores == {NoEntry, EntryOf(<<>>), EntryOf(<<"key">>)}

RECURSIVE SeqsUpTo(_, _)
SeqsUpTo(S, n) ==
    IF n = 0 THEN {<<>>}
    ELSE LET shorter == SeqsUpTo(S, n - 1)
         IN  shorter \cup {Append(q, x) : q \in shorter, x \in S}

Lexemes ==
    { Punct("{"), Punct("}"), Punct("["), Punct("]"), Punct(":"), Punct(","),
      Punct("null"), Punct("NaN"), BadTok,
      StrTok(Confidence), NumTok(150) }

\* every text of at most MaxTokens lexemes
ShortTexts == SeqsUpTo(Lexemes, MaxTokens)

\* the lexemes of the values a field of the answer may hold
ConfidenceTexts ==
    { <<NumTok(n)>> : n \in Numbers } \cup
    { <<Punct(k)>> : k \in {"NaN", "Infinity", "-Infinity", "null", "true"} } \cup
    { <<StrTok(<<"abc">>)>>, <<StrTok(<<" ", "50", " ">>)>>, <<StrTok(<<"nan">>)>>,
      <<Punct("["), Punct("]")>>, <<Punct("{"), Punct("}")>> }
DecisionTexts ==
    { <<StrTok(<<"match">>)>>, <<StrTok(<<"no_match">>)>>,
      <<StrTok(<<" ", "match", "\n">>)>>, <<Punct("null")>>,
      <<Punct("["), NumTok(0), Punct(","), StrTok(<<"a">>), Punct("]")>> }
ReasoningTexts ==
    { <<StrTok(<<"same number and street">>)>>,
      <<StrTok(Fallback.reasoning)>>, <<NumTok(50)>> }

Member(key, text) == <<StrTok(key), Punct(":")>> \o text
Absent == <<>>

\* "{" members "}" with "," between the members that are present
ObjectText(members) ==
    LET present == SelectSeq(members, LAMBDA m : m # Absent)
    IN  <<Punct("{")>> \o Join(present, <<Punct(",")>>) \o <<Punct("}")>>

\* a JSON object with any of the three fields present or absent
ObjectTexts ==
    { ObjectText(<<c, d, r>>) :
        c \in {Absent} \cup {Member(Confidence, t) : t \in ConfidenceTexts},
        d \in {Absent} \cup {Member(Decision, t) : t \in DecisionTexts},
        r \in {Absent} \cup {Member(Reasoning, t) : t \in ReasoningTexts} }

\* objects with a repeated key, a foreign key, a nested value, a trailing
\* comma, text after the object
OtherTexts ==
    { ObjectText(<<Member(Confidence, <<NumTok(0)>>), Member(Confidence, <<NumTok(150)>>)>>),
      ObjectText(<<Member(<<"score">>, <<NumTok(50)>>), Member(Decision, <<StrTok(<<"match">>)>>)>>),
      ObjectText(<<Member(Decision, <<Punct("{"), StrTok(<<"a">>), Punct(":"), Punct("null"), Punct("}")>>)>>),
      <<Punct("{"), StrTok(Confidence), Punct(":"), NumTok(50), Punct(","), Punct("}")>>,
      <<Punct("{"), Punct("}"), Punct("{"), Punct("}")>>,
      <<Punct("["), Punct("{"), Punct("}"), Punct("]")>>,
      <<Punct("false")>>, <<StrTok(<<"match">>)>> }

Responses ==
    {NoneResponse, BlockedResponse} \cup
    {TextResponse(t) : t \in ShortTexts \cup ObjectTexts \cup OtherTexts}

(***************************************************************************)
(* The page: one run of the script per user interaction                    *)
(***************************************************************************)
VARIABLES
    secrets,    \* st.secrets
    addr1,      \* text area "Address 1"
    addr2,      \* text area "Address 2"
    submitted,  \* st.form_submit_button of this run
    pc,         \* the line the run is at; "idle" once it has ended
    api_key,    \* local of the submit branch
    model,      \* the configured model, <<>> until configure_genai returns
    response,   \* what generate_content returned
    result,     \* what score_addresses returned
    ui,         \* the elements this run has rendered, in order
    exception,  \* the exception that ended this run, "" if none
    effects     \* what this run did outside the page, in order

vars == <<secrets, addr1, addr2, submitted, pc, api_key, model, response,
          result, ui, exception, effects>>

Element(kind, text) == [kind |-> kind, text |-> text]
Form == Element("form", <<"address_form">>)
Sidebar == Element("sidebar", <<"How to use">>)
NoResult == MatchResult(Fin(0), <<>>, <<>>)

\* lines 125-128: success, metric, decision, reasoning
ResultElements(r) ==
    << Element("success", <<"Result">>),
       Element("metric", <<FloatStr(r.confidence)>>),
       Element("write", <<"Decision: **">> \o r.decision \o <<"**">>),
       Element("write", <<"Reasoning:", " ">> \o r.reasoning) >>

\* an uncaught exception ends the run; nothing more is rendered
Abort(exc) ==
    /\ exception' = exc
    /\ pc' = "idle"

\* the first run of a session: the empty form, not submitted
Init ==
    /\ secrets \in SecretStores
    /\ addr1 = <<>>
    /\ addr2 = <<>>
    /\ submitted = FALSE
    /\ pc = "idle"
    /\ api_key = <<>>
    /\ model = <<>>
    /\ response = NoResponse
    /\ result = NoResult
    /\ ui = <<Form, Sidebar>>
    /\ exception = ""
    /\ effects = <<>>

\* lines 104-112: an interaction reruns the script from the top with the
\* text areas as the user left them; the form is rendered
Rerun ==
    /\ pc = "idle"
    /\ \E a \in Addresses, b \in Addresses, s \in BOOLEAN :
          /\ addr1' = a
          /\ addr2' = b
          /\ submitted' = s
    /\ pc' = "line114"
    /\ api_key' = <<>>
    /\ model' = <<>>
    /\ response' = NoResponse
    /\ result' = NoResult
    /\ ui' = <<Form>>
    /\ exception' = ""
    /\ effects' = <<>>
    /\ UNCHANGED secrets

\* the branch taken whether or not the form was submitted
IfSubmitted_always ==
    /\ pc = "line114"
    /\ pc' = "line115"
    /\ UNCHANGED <<secrets, addr1, addr2, submitted, api_key, model, response,
                   result, ui, exception, effects>>

\* line 114
IfSubmitted ==
    /\ pc = "line114"
    /\ pc' = IF submitted THEN "line115" ELSE "line130"
    /\ UNCHANGED <<secrets, addr1, addr2, submitted, api_key, model, response,
                   result, ui, exception, effects>>

\* line 115: st.secrets["GEMINI_API_KEY"] raises KeyError without the entry
ReadSecret ==
    /\ pc = "line115"
    /\ effects' = Append(effects, "secrets")
    /\ IF secrets.has
       THEN /\ api_key' = secrets.key
            /\ pc' = "line116"
            /\ UNCHANGED exception
       ELSE /\ Abort("KeyError")
            /\ UNCHANGED api_key
    /\ UNCHANGED <<secrets, addr1, addr2, submitted, model, response, result, ui>>

\* lines 116-120
CheckInputs ==
    /\ pc = "line116"
    /\ IF api_key = <<>>
       THEN /\ ui' = Append(ui, Element("error",
                        <<"Missing GEMINI_API_KEY environment variable.">>))
            /\ pc' = "line130"
       ELSE IF blank(addr1) \/ blank(addr2)
       THEN /\ ui' = Append(ui, Element("warning", <<"Please enter both addresses.">>))
            /\ pc' = "line130"
       ELSE /\ ui' = ui
            /\ pc' = "line122"
    /\ UNCHANGED <<secrets, addr1, addr2, submitted, api_key, model, response,
                   result, exception, effects>>

\* line 122, lines 31-34
configure_genai ==
    /\ pc = "line122"
    /\ effects' = Append(effects, "configure")
    /\ \/ /\ model' = <<"gemini-2.5-flash">> \o api_key
          /\ pc' = "line123"
          /\ UNCHANGED exception
       \/ /\ Abort("ConfigureError")
          /\ UNCHANGED model
    /\ UNCHANGED <<secrets, addr1, addr2, submitted, api_key, response, result, ui>>

\* line 123, lines 56-83: the request is sent with the stripped addresses;
\* it returns a response or raises (network, authentication, quota)
generate_content ==
    /\ pc = "line123"
    /\ effects' = effects \o <<"generate_content">> \o strip(addr1) \o <<"|">> \o strip(addr2)
    /\ \/ /\ \E r \in Responses : response' = r
          /\ pc' = "line84"
          /\ UNCHANGED exception
       \/ /\ Abort("APIError")
          /\ UNCHANGED response
    /\ UNCHANGED <<secrets, addr1, addr2, submitted, api_key, model, result, ui>>

\* lines 84-98, back in line 123
score_addresses_returns ==
    /\ pc = "line84"
    /\ LET r == score_addresses(response)
       IN  IF r.exc = ""
           THEN /\ result' = r.val
                /\ pc' = "line125"
                /\ UNCHANGED exception
           ELSE /\ Abort(r.exc)
                /\ UNCHANGED result
    /\ UNCHANGED <<secrets, addr1, addr2, submitted, api_key, model, response,
                   ui, effects>>

\* lines 125-128
RenderResult ==
    /\ pc = "line125"
    /\ ui' = ui \o ResultElements(result)
    /\ pc' = "line130"
    /\ UNCHANGED <<secrets, addr1, addr2, submitted, api_key, model, response,
                   result, exception, effects>>

\* lines 130-137: the run ends
RenderSidebar ==
    /\ pc = "line130"
    /\ ui' = Append(ui, Sidebar)
    /\ pc' = "idle"
    /\ UNCHANGED <<secrets, addr1, addr2, submitted, api_key, model, response,
                   result, exception, effects>>

Next ==
    \/ Rerun
    \/ IfSubmitted
    \/ ReadSecret
    \/ CheckInputs
    \/ configure_genai
    \/ generate_content
    \/ score_addresses_returns
    \/ RenderResult
    \/ RenderSidebar

Spec == Init /\ [][Next]_vars

(***************************************************************************)
(* Properties                                                              *)
(***************************************************************************)
HasKind(u, kinds) == \E i \in 1..Len(u) : u[i].kind \in kinds
ResultKinds == {"success", "metric", "write"}
Did(what) == \E i \in 1..Len(effects) : effects[i] = what

\* score_addresses has returned a MatchResult in this run
Returned == response.kind # "unset" /\ pc # "line84" /\ exception = ""
\* score_addresses has run to its end, or raised, on a response with a text
Settled == response.kind \in {"text", "none"} /\ pc # "line84"
\* the run has ended, by its last line or by an exception
RunEnded == pc = "idle"

\* RFC 8259: the grammar json.loads accepts, without its three extra constants
WellFormed(toks) ==
    /\ json_loads(toks).ok
    /\ \A i \in 1..Len(toks) : toks[i].k \notin {"NaN", "Infinity", "-Infinity"}

HasKey(toks, key) ==
    \E j \in 1..Len(json_loads(toks).val.items) :
        json_loads(toks).val.items[j].key = key
IsObject(toks) == json_loads(toks).ok /\ json_loads(toks).val.t = "dict"

Answer(c, d, r) ==
    ObjectText(<<Member(Confidence, c), Member(Decision, <<StrTok(d)>>),
                 Member(Reasoning, <<StrTok(r)>>)>>)
\* {"confidence": 150, "decision": "match", "reasoning": "same number and street"}
Answer150 == Answer(<<NumTok(150)>>, <<"match">>, <<"same number and street">>)

\* C1: whenever score_addresses returns, the confidence of its result is a
\* number in [0, 100]: a parsed confidence below 0 becomes 0, one above 100
\* becomes 100 (150 is reported as 100.0), one within the range is unchanged,
\* and the fallback record has confidence 0.
C1_ConfidenceWithinRange ==
    Returned =>
        LET p == parse_json_response(raw_text_of(response))
            got == result.confidence
            was == p.val.confidence
        IN  /\ got.c = "fin" /\ 0 <= got.n /\ got.n <= 100
            /\ p.none => got = Fin(0)
            /\ (~p.none /\ was.c = "fin") =>
                   got.n = IF was.n < 0 THEN 0 ELSE IF was.n > 100 THEN 100 ELSE was.n
            /\ response = TextResponse(Answer150) =>
                   /\ ResultElements(result)[2].text = <<"100.0">>
                   /\ result.decision = <<"match">>

C1_Witness ==
    /\ Returned
    /\ response = TextResponse(Answer150)
    /\ parse_json_response(raw_text_of(response)).val.confidence = Fin(150)
    /\ result.confidence = Fin(100)

\* C2: for every response text that is not well-formed JSON (the empty text
\* included), the parser returns None and score_addresses returns exactly
\* the default record.
C2_MalformedYieldsDefault ==
    (Settled /\ ~WellFormed(raw_text_of(response))) =>
        /\ parse_json_response(raw_text_of(response)).none
        /\ exception = ""
        /\ result = MatchResult(Fin(0), <<"no_match">>,
                <<"Could not parse model response; defaulting to no match.">>)

\* C3: on any deserialization or type failure of the response (text that
\* does not decode, a top-level value that is not an object, a confidence
\* that does not convert to a number) score_addresses substitutes the
\* default record and does not raise.
C3_FailureYieldsDefault ==
    LET raw == raw_text_of(response)
        failure ==
            \/ ~json_loads(raw).ok
            \/ ~IsObject(raw)
            \/ confidence_of(json_loads(raw).val).exc # ""
    IN  Settled =>
            /\ exception = ""
            /\ failure => result = Fallback

\* C4: for a well-formed JSON object without a "confidence" field the parser
\* returns a result, not None: its confidence is 0 and its decision and
\* reasoning are those of the object (the empty string when absent).
C4_MissingConfidenceIsZero ==
    LET raw == raw_text_of(response)
        p == parse_json_response(raw)
        payload == json_loads(raw).val
    IN  (Settled /\ WellFormed(raw) /\ IsObject(raw) /\ ~HasKey(raw, Confidence)) =>
            /\ p.exc = "" /\ ~p.none
            /\ p.val.confidence = Fin(0)
            /\ p.val.decision = strip(py_str(dict_get(payload, Decision, PyStr(<<>>))))
            /\ p.val.reasoning = strip(py_str(dict_get(payload, Reasoning, PyStr(<<>>))))
            /\ ~HasKey(raw, Decision) => p.val.decision = <<>>
            /\ ~HasKey(raw, Reasoning) => p.val.reasoning = <<>>
            /\ exception = "" /\ result = p.val
            /\ raw = ObjectText(<<Member(Decision, <<StrTok(<<" ", "match", "\n">>)>>)>>) =>
                   result = MatchResult(Fin(0), <<"match">>, <<>>)

C4_Witness ==
    /\ Returned
    /\ raw_text_of(response) =
           ObjectText(<<Member(Decision, <<StrTok(<<" ", "match", "\n">>)>>)>>)
    /\ result = MatchResult(Fin(0), <<"match">>, <<>>)

KeyPresent == secrets.has /\ secrets.key # <<>>
AnyBlank == strip(addr1) = <<>> \/ strip(addr2) = <<>>

\* C5: a submission with an address field that is empty or only whitespace
\* produces a warning, makes no model call and renders no result.
C5_BlankAddressWarns ==
    (RunEnded /\ submitted /\ AnyBlank) =>
        /\ HasKind(ui, {"warning"})
        /\ ~Did("generate_content")
        /\ ~HasKind(ui, ResultKinds)

\* C5 as amended: a submission with a blank address field never makes the
\* model call nor renders a result, and when the run has ended the warning
\* has been produced exactly if the secrets store holds a non-empty key (an
\* empty key shows the error instead; a missing entry raises first).
C5_BlankAddressNoCall ==
    (submitted /\ AnyBlank) =>
        /\ ~Did("generate_content")
        /\ ~Did("configure")
        /\ response = NoResponse
        /\ ~HasKind(ui, ResultKinds)
        /\ HasKind(ui, {"warning"}) => KeyPresent
        /\ RunEnded => (HasKind(ui, {"warning"}) <=> KeyPresent)
        /\ (RunEnded /\ KeyPresent) =>
               ui = <<Form, Element("warning", <<"Please enter both addresses.">>), Sidebar>>

C5_Witness ==
    /\ RunEnded /\ submitted /\ KeyPresent
    /\ addr1 = <<"\n", "\t">>
    /\ strip(addr2) # <<>>
    /\ HasKind(ui, {"warning"})

\* C6: a submission with the API key absent from the secrets store (missing
\* entry or empty value) shows an inline error message, neither configures
\* nor calls the model, and renders no result.
C6_AbsentKeyShowsError ==
    (RunEnded /\ submitted /\ ~KeyPresent) =>
        /\ HasKind(ui, {"error"})
        /\ ~Did("configure")
        /\ ~Did("generate_content")
        /\ ~HasKind(ui, ResultKinds)

\* what a run does outside the page, in order, when it gets that far
FullEffects ==
    <<"secrets", "configure", "generate_content">>
        \o strip(addr1) \o <<"|">> \o strip(addr2)
Calls == Cardinality({i \in 1..Len(effects) : effects[i] = "generate_content"})

\* C7: a run issues at most one model call, and only when the form was
\* submitted, the key is non-empty and both stripped addresses are
\* non-empty; the secret is read, the model configured, the call made and
\* the result rendered in that order, the result only after the call has
\* returned; a run without submission reads no secret, makes no call and
\* renders no result.
C7_OneCallInOrder ==
    /\ Calls <= 1
    /\ Did("generate_content") =>
           /\ submitted /\ api_key # <<>> /\ api_key = secrets.key
           /\ strip(addr1) # <<>> /\ strip(addr2) # <<>>
           /\ effects = FullEffects
           /\ model # <<>>
    /\ \/ effects = <<>>
       \/ effects = <<"secrets">>
       \/ effects = <<"secrets", "configure">>
       \/ effects = FullEffects
    /\ HasKind(ui, ResultKinds) =>
           /\ effects = FullEffects
           /\ response.kind \in {"text", "none"}
           /\ exception = ""
           /\ ui \in {<<Form>> \o ResultElements(result),
                      <<Form>> \o ResultElements(result) \o <<Sidebar>>}
    /\ ~submitted =>
           /\ effects = <<>>
           /\ response = NoResponse
           /\ ~HasKind(ui, ResultKinds \cup {"error", "warning"})

C7_Witness ==
    /\ RunEnded /\ submitted
    /\ Calls = 1
    /\ addr2 = <<" ", "10", " ", "Downing", " ", "Street", "\n">>
    /\ HasKind(ui, ResultKinds)

\* the model call failed: configure_genai or generate_content was entered
\* and did not return, or reading response.text raised
CallFailed ==
    \/ RunEnded /\ Did("configure") /\ model = <<>>
    \/ RunEnded /\ Did("generate_content") /\ response = NoResponse
    \/ pc # "line84" /\ response = BlockedResponse

\* C8: when the model call fails, no default record is substituted: the
\* exception leaves score_addresses and the submit branch, and no result
\* element is rendered in that run.
C8_CallFailurePropagates ==
    CallFailed =>
        /\ exception # ""
        /\ RunEnded
        /\ result = NoResult
        /\ ui = <<Form>>

C8_Witness ==
    /\ response = BlockedResponse
    /\ exception = "ValueError"
    /\ RunEnded

\* C9: for every JSON object the parser turns into a result, the decision
\* and reasoning score_addresses returns are the object's "decision" and
\* "reasoning" converted to str and stripped, whatever the confidence, and
\* clamping changes the confidence alone.
C9_DecisionNotRecomputed ==
    LET raw == raw_text_of(response)
        p == parse_json_response(raw)
        payload == json_loads(raw).val
    IN  (Returned /\ ~p.none) =>
            /\ result.decision = strip(py_str(dict_get(payload, Decision, PyStr(<<>>))))
            /\ result.reasoning = strip(py_str(dict_get(payload, Reasoning, PyStr(<<>>))))
            /\ [result EXCEPT !.confidence = p.val.confidence] = p.val
            /\ \A c \in ConfidenceTexts :
                   raw = Answer(c, <<"match">>, <<"same number and street">>) =>
                       /\ result.decision = <<"match">>
                       /\ result.reasoning = <<"same number and street">>
            /\ raw = Answer150 => result.confidence = Fin(100)

C9_Witness ==
    /\ Returned
    /\ raw_text_of(response) =
           Answer(<<NumTok(0)>>, <<"match">>, <<"same number and street">>)
    /\ result = MatchResult(Fin(0), <<"match">>, <<"same number and street">>)

\* the model answers no_match with the words of the default record
NoMatchAnswer ==
    Answer(<<NumTok(0)>>, <<"no_match">>,
           <<"Could not parse model response; defaulting to no match.">>)

DefaultPage ==
    << Form,
       Element("success", <<"Result">>),
       Element("metric", <<"0.0">>),
       Element("write", <<"Decision: **", "no_match", "**">>),
       Element("write", <<"Reasoning:", " ",
                          "Could not parse model response; defaulting to no match.">>),
       Sidebar >>

====
